---- MODULE Spec2Model ----
(***************************************************************************)
(* Model of the Excel-to-XML conversion backend (src/backend).             *)
(*                                                                         *)
(* Text is a sequence of one-character strings, bytes are 0..255, a file   *)
(* system is a function from paths to file contents.  The collaborators    *)
(* the pipeline calls but does not implement (the audit sink, the block    *)
(* cipher, the spreadsheet reader) either succeed or raise; the choice is  *)
(* an input of the action that makes the call.  As utils/audit.py wires    *)
(* the audit sink (its logger is utils/logger.AuditLogger, which has no    *)
(* info, information, warning or error method) the raising outcome is the  *)
(* one a call takes; the returning outcome is kept so that the properties  *)
(* also say what the pipeline does around a sink that works.               *)
(*                                                                         *)
(* Specifications:                                                         *)
(*   SpecSan     the three tag sanitizers applied once and twice           *)
(*   SpecCipher  AESEncryption.encrypt_data / decrypt_data                 *)
(*   SpecIV      two encrypt_data calls on one plaintext                   *)
(*   SpecKey     construction of the process-wide AESEncryption object     *)
(*   SpecConv    one call of a conversion entry point on a file system     *)
(*   Spec        the routes: convert_file and download_file, job after job *)
(*   SpecReq     one request to a route, answered through app.py's handlers*)
(*   SpecDl      two concurrent download_file requests for one artifact    *)
(*   SpecMain    main.py: conversions under clock-derived names, downloads *)
(*   SpecRate    the request ceilings of app.py and main.py                *)
(***************************************************************************)
EXTENDS Integers, Sequences, FiniteSets, TLC

VARIABLES
    \* ---- SpecSan
    sanPc,      \* "off" | "in" | "once" | "twice"
    sanIn,      \* the text handed to the sanitizers
    sanOut,     \* results of the first application, by sanitizer
    sanOut2,    \* results of applying each sanitizer to its own result
    \* ---- SpecCipher and SpecIV
    cphPc,      \* "off" | "idle" | "encrypted" | "tampered" | "decrypted";
                \* SpecIV: "calls" | "read"
    cphPlain,   \* the plaintext handed to encrypt_data
    cphBlob,    \* the artifact: result of encrypt_data (base64 text), or Raised;
                \* SpecIV: the encrypt_data calls made, each with its IV
    cphTamper,  \* TRUE once a ciphertext byte of the artifact has been changed
    cphOut,     \* result of decrypt_data; SpecIV: one result per artifact
    \* ---- SpecConv and Spec
    fs,         \* the file system: path -> content
    cvPc,       \* "off" | "ready" | "done"
    cvCall,     \* the conversion call made: entry point and arguments
    cvOut,      \* its outcome
    clock,      \* wall clock in seconds (main.py names its output after it)
    jobs,       \* Spec: the convert_file requests served; job i has file id i
    resp        \* Spec: the response of the last download_file request made
                \* since the last conversion

sanVars == <<sanPc, sanIn, sanOut, sanOut2>>
cphVars == <<cphPc, cphPlain, cphBlob, cphTamper, cphOut>>
cvVars  == <<cvPc, cvCall, cvOut>>
fsVars  == <<fs, clock, jobs, resp>>
vars    == <<sanVars, cphVars, cvVars, fsVars>>

\* An operation either returns a value or raises an exception.
Returned(v) == [raised |-> "", val |-> v]
Raised(e)   == [raised |-> e, val |-> <<>>]
NoResult    == [raised |-> "not called", val |-> <<>>]
Ok(r)       == r.raised = ""

\* The variables of the specifications that are not running keep these values.
NoSanOut == [main |-> NoResult, routes |-> NoResult, utils |-> NoResult]

SanOff == sanPc = "off" /\ sanIn = <<>> /\ sanOut = NoSanOut /\ sanOut2 = NoSanOut
CphOff == cphPc = "off" /\ cphPlain = <<>> /\ cphBlob = NoResult
          /\ cphTamper = FALSE /\ cphOut = NoResult
NoOutcome == [raised |-> "not called", tree |-> <<>>, wrote |-> FALSE]
CvOff  == cvPc = "off" /\ cvCall = <<>> /\ cvOut = NoOutcome
FsOff  == fs = <<>> /\ clock = 0 /\ jobs = <<>> /\ resp = <<>>

(***************************************************************************)
(* Characters                                                              *)
(***************************************************************************)
LowerCase == {"a","b","c","d","e","f","g","h","i","j","k","l","m",
              "n","o","p","q","r","s","t","u","v","w","x","y","z"}
UpperCase == {"A","B","C","D","E","F","G","H","I","J","K","L","M",
              "N","O","P","Q","R","S","T","U","V","W","X","Y","Z"}
Letters    == LowerCase \cup UpperCase
Digits     == {"0","1","2","3","4","5","6","7","8","9"}
Whitespace == {" ", "\t", "\n"}
\* [a-zA-Z0-9_.-]
NameChars  == Letters \cup Digits \cup {"_", ".", "-"}
\* [a-zA-Z_]
NameStart  == Letters \cup {"_"}

\* ^[A-Za-z_][A-Za-z0-9_.-]*$
MatchesTagRegex(s) ==
    /\ Len(s) > 0
    /\ s[1] \in NameStart
    /\ \A i \in 1..Len(s) : s[i] \in NameChars

\* the letter e with acute accent (U+00E9): one of the characters outside
\* ASCII that XML allows in a name
EAcute == "U+00E9"
\* what the XML parser (minidom.parseString, expat) accepts as an element
\* name: the ASCII name characters and the letters outside ASCII (a colon
\* needs a declared prefix and is left out)
XmlNameStart == NameStart \cup {EAcute}
XmlNameChars == NameChars \cup {EAcute}
WellFormedName(s) ==
    /\ Len(s) > 0
    /\ s[1] \in XmlNameStart
    /\ \A i \in 1..Len(s) : s[i] \in XmlNameChars

(***************************************************************************)
(* main.sanitize_tag and routes.converter.sanitize_xml_tag                 *)
(***************************************************************************)
RECURSIVE lstrip(_, _)
\* s without its leading characters that are in cs
lstrip(s, cs) ==
    IF s # <<>> /\ Head(s) \in cs THEN lstrip(Tail(s), cs) ELSE s

RECURSIVE rstrip(_, _)
rstrip(s, cs) ==
    IF s # <<>> /\ s[Len(s)] \in cs THEN rstrip(SubSeq(s, 1, Len(s) - 1), cs) ELSE s

\* str.strip(): both ends
strip(s, cs) == rstrip(lstrip(s, cs), cs)

RECURSIVE re_sub_ws(_)
\* re.sub(r'\s+', '_', tag): every maximal whitespace run becomes one '_'
re_sub_ws(s) ==
    IF s = <<>> THEN <<>>
    ELSE IF Head(s) \in Whitespace
         THEN <<"_">> \o re_sub_ws(lstrip(Tail(s), Whitespace))
         ELSE <<Head(s)>> \o re_sub_ws(Tail(s))

\* re.sub(r'[^a-zA-Z0-9_.-]', '', tag)
re_sub_invalid(s) == SelectSeq(s, LAMBDA c : c \in NameChars)

\* re.match(r'^[a-zA-Z_]', tag)
re_match_start(s) == s # <<>> /\ Head(s) \in NameStart

\* a sanitizer that forgets the leading-character step
sanitize_tag_noprefix(tag) == re_sub_invalid(re_sub_ws(tag))

\* a sanitizer that prepends '_' without looking at the first character
sanitize_tag_alwaysprefix(tag) == <<"_">> \o re_sub_invalid(re_sub_ws(tag))

\* main.sanitize_tag
sanitize_tag(tag) ==
    LET t1 == re_sub_ws(tag)
        t2 == re_sub_invalid(t1)
        t3 == IF ~re_match_start(t2) THEN <<"_">> \o t2 ELSE t2
    IN  IF t3 = <<>> THEN <<"E","M","P","T","Y","_","T","A","G">> ELSE t3

\* routes.converter.sanitize_xml_tag
sanitize_xml_tag(name) ==
    LET t1 == re_sub_ws(name)
        t2 == re_sub_invalid(t1)
    IN  IF ~re_match_start(t2) THEN <<"_">> \o t2 ELSE t2

(***************************************************************************)
(* utils.converter.ExcelToXMLConverter._sanitize_xml_tag                   *)
(***************************************************************************)
\* the characters line 29 allows
UtilsAllowed == Letters \cup Digits \cup {"_"}

HasDoubleUnderscore(s) ==
    \E i \in 1..(Len(s) - 1) : s[i] = "_" /\ s[i + 1] = "_"

RECURSIVE replace_dunder(_)
\* tag.replace('__', '_'): non-overlapping occurrences, left to right
replace_dunder(s) ==
    IF Len(s) < 2 THEN s
    ELSE IF s[1] = "_" /\ s[2] = "_"
         THEN <<"_">> \o replace_dunder(SubSeq(s, 3, Len(s)))
         ELSE <<Head(s)>> \o replace_dunder(Tail(s))

RECURSIVE collapse_dunder(_)
\* while '__' in tag: tag = tag.replace('__', '_')
collapse_dunder(s) ==
    IF HasDoubleUnderscore(s) THEN collapse_dunder(replace_dunder(s)) ELSE s

\* str.replace(' ', '_')
replace_space(s) == [i \in 1..Len(s) |-> IF s[i] = " " THEN "_" ELSE s[i]]

\* ExcelToXMLConverter._sanitize_xml_tag: the tag, or the exception raised
_sanitize_xml_tag(tag) ==
    IF tag = <<>> THEN Raised("ValueError")
    ELSE LET t1 == strip(tag, Whitespace)
         IN  IF \E i \in 1..Len(t1) : t1[i] \notin UtilsAllowed
             THEN Raised("ValueError")
             ELSE IF t1 = <<>> THEN Raised("IndexError")
             ELSE LET t2 == replace_space(t1)
                      t3 == IF ~(t2[1] \in Letters \/ t2[1] = "_")
                            THEN <<"_">> \o t2 ELSE t2
                      t4 == collapse_dunder(t3)
                      t5 == strip(t4, {"_"})
                  IN  IF t5 = <<>> THEN Raised("ValueError") ELSE Returned(t5)

(***************************************************************************)
(* utils.encryption.AESEncryption                                          *)
(***************************************************************************)
BlockSize == 16
IVLen == 16

RECURSIVE Xor(_, _)
\* bitwise exclusive or of two naturals
Xor(a, b) ==
    IF a = 0 THEN b
    ELSE IF b = 0 THEN a
    ELSE (((a % 2) + (b % 2)) % 2) + (2 * Xor(a \div 2, b \div 2))

XorBlock(x, y) == [i \in 1..BlockSize |-> Xor(x[i], y[i])]

\* AES under the derived key, taken as a key-indexed bijection on 16-byte
\* blocks that mixes byte positions; BlockDec is its inverse.
BlockEnc(k, b) == [i \in 1..BlockSize |-> (b[(i % BlockSize) + 1] + k + i) % 256]
BlockDec(k, c) ==
    [j \in 1..BlockSize |->
        LET i == ((j + BlockSize - 2) % BlockSize) + 1
        IN  (c[i] + 512 - k - i) % 256]

RECURSIVE cbc_encrypt(_, _, _)
\* Cipher(AES(key), CBC(iv)).encryptor(): each block is xored with the
\* previous ciphertext block (the IV for the first) and then enciphered
cbc_encrypt(k, prev, data) ==
    IF data = <<>> THEN <<>>
    ELSE LET c == BlockEnc(k, XorBlock(SubSeq(data, 1, BlockSize), prev))
         IN  c \o cbc_encrypt(k, c, SubSeq(data, BlockSize + 1, Len(data)))

RECURSIVE cbc_blocks(_, _, _)
cbc_blocks(k, prev, ct) ==
    IF ct = <<>> THEN <<>>
    ELSE LET c == SubSeq(ct, 1, BlockSize)
         IN  XorBlock(BlockDec(k, c), prev)
                 \o cbc_blocks(k, c, SubSeq(ct, BlockSize + 1, Len(ct)))

\* Cipher(AES(key), CBC(iv)).decryptor(): update + finalize refuse data that
\* is not a whole number of blocks, and check nothing else
cbc_decrypt(k, iv, ct) ==
    IF Len(ct) % BlockSize # 0 THEN Raised("ValueError")
    ELSE Returned(cbc_blocks(k, iv, ct))

\* a padding that adds nothing to data that is already block-aligned
pad_unless_aligned(data) ==
    LET pad_length == (BlockSize - (Len(data) % BlockSize)) % BlockSize
    IN  data \o [i \in 1..pad_length |-> pad_length]

\* AESEncryption._pad
_pad(data) ==
    LET pad_length == BlockSize - (Len(data) % BlockSize)
    IN  data \o [i \in 1..pad_length |-> pad_length]

\* AESEncryption._unpad: data[-1] of empty data is an IndexError; the slice
\* data[:-pad_length] is empty when pad_length is 0 or exceeds the length
_unpad(data) ==
    IF data = <<>> THEN Raised("IndexError")
    ELSE LET pad_length == data[Len(data)]
         IN  IF pad_length = 0 \/ pad_length >= Len(data)
             THEN Returned(<<>>)
             ELSE Returned(SubSeq(data, 1, Len(data) - pad_length))

\* Base64 text is a sequence of sextets 0..63; B64Pad stands for '='.
B64Pad == 64

RECURSIVE b64encode(_)
b64encode(b) ==
    IF b = <<>> THEN <<>>
    ELSE IF Len(b) = 1
         THEN <<b[1] \div 4, (b[1] % 4) * 16, B64Pad, B64Pad>>
    ELSE IF Len(b) = 2
         THEN <<b[1] \div 4, ((b[1] % 4) * 16) + (b[2] \div 16), (b[2] % 16) * 4, B64Pad>>
    ELSE <<b[1] \div 4, ((b[1] % 4) * 16) + (b[2] \div 16),
           ((b[2] % 16) * 4) + (b[3] \div 64), b[3] % 64>>
             \o b64encode(SubSeq(b, 4, Len(b)))

RECURSIVE b64groups(_)
\* the bytes of whole 4-character groups; padding ends the data
b64groups(t) ==
    IF t = <<>> THEN <<>>
    ELSE IF t[3] = B64Pad
         THEN <<(t[1] * 4) + (t[2] \div 16)>>
    ELSE IF t[4] = B64Pad
         THEN <<(t[1] * 4) + (t[2] \div 16), ((t[2] % 16) * 16) + (t[3] \div 4)>>
    ELSE <<(t[1] * 4) + (t[2] \div 16), ((t[2] % 16) * 16) + (t[3] \div 4),
           ((t[3] % 4) * 64) + t[4]>>
             \o b64groups(SubSeq(t, 5, Len(t)))

\* base64.b64decode: text whose length is not a multiple of 4 is refused
b64decode(t) ==
    IF Len(t) % 4 # 0 THEN Raised("binascii.Error") ELSE Returned(b64groups(t))

\* the exception of a collaborator call that raised
AuditError == "AuditError"

\* an encrypt_data that ignores what os.urandom returned and always uses
\* the all-zero IV
encrypt_data_fixed_iv(key, data, iv, auditOk) ==
    LET zero        == [i \in 1..IVLen |-> 0]
        padded_data == _pad(data)
        ciphertext  == cbc_encrypt(key, zero, padded_data)
        encrypted   == b64encode(zero \o ciphertext)
    IN  IF auditOk THEN Returned(encrypted) ELSE Raised(AuditError)

\* AESEncryption.encrypt_data; iv is what os.urandom(16) returned and
\* auditOk whether the audit sink accepted the event
encrypt_data(key, data, iv, auditOk) ==
    LET padded_data == _pad(data)
        ciphertext  == cbc_encrypt(key, iv, padded_data)
        encrypted   == b64encode(iv \o ciphertext)
    IN  IF auditOk THEN Returned(encrypted) ELSE Raised(AuditError)

\* AESEncryption.decrypt_data
decrypt_data(key, encrypted_data, auditOk) ==
    LET encrypted_bytes == b64decode(encrypted_data)
    IN  IF ~Ok(encrypted_bytes) THEN encrypted_bytes
        ELSE LET iv          == SubSeq(encrypted_bytes.val, 1, IVLen)
                 ciphertext  == SubSeq(encrypted_bytes.val, IVLen + 1,
                                       Len(encrypted_bytes.val))
                 padded_data == cbc_decrypt(key, iv, ciphertext)
             IN  IF ~Ok(padded_data) THEN padded_data
                 ELSE LET data == _unpad(padded_data.val)
                      IN  IF ~Ok(data) THEN data
                          ELSE IF auditOk THEN data ELSE Raised(AuditError)

(***************************************************************************)
(* SpecCipher: a plaintext is encrypted, one byte of the ciphertext part   *)
(* of the artifact may be changed, and the artifact is decrypted.          *)
(***************************************************************************)
MaxPlainLen == 17
\* byte values at the edges of what _unpad reads as a pad length
ByteSample == {0, 1, 16, 255}
\* a plaintext of n bytes: `fill` repeated, then `last`
PlainOf(n, fill, last) == [i \in 1..n |-> IF i = n THEN last ELSE fill]
Plaintexts ==
    {PlainOf(n, f, l) : n \in 0..MaxPlainLen, f \in ByteSample, l \in ByteSample}
\* two of the values os.urandom(16) may return
IVSample == {[i \in 1..IVLen |-> ((seed * i) + seed) % 256] : seed \in {0, 37}}
\* the key _derive_key produced at construction
DerivedKey == 91
\* the bits a corruption flips in the byte it hits
TamperMasks == {1, 128, 255}

Encrypt ==
    /\ cphPc = "idle"
    /\ \E iv \in IVSample, auditOk \in BOOLEAN :
           cphBlob' = encrypt_data(DerivedKey, cphPlain, iv, auditOk)
    /\ cphPc' = IF Ok(cphBlob') THEN "encrypted" ELSE "failed"
    /\ UNCHANGED <<cphPlain, cphTamper, cphOut, sanVars, cvVars, fsVars>>

\* one byte of the ciphertext part (after the IV) of the artifact is changed
Tamper ==
    /\ cphPc = "encrypted"
    /\ LET bytes == b64decode(cphBlob.val).val
       IN  \E pos \in (IVLen + 1)..Len(bytes), mask \in TamperMasks :
               cphBlob' = Returned(b64encode(
                              [bytes EXCEPT ![pos] = Xor(bytes[pos], mask)]))
    /\ cphTamper' = TRUE
    /\ cphPc' = "tampered"
    /\ UNCHANGED <<cphPlain, cphOut, sanVars, cvVars, fsVars>>

Decrypt ==
    /\ cphPc \in {"encrypted", "tampered"}
    /\ \E auditOk \in BOOLEAN :
           cphOut' = decrypt_data(DerivedKey, cphBlob.val, auditOk)
    /\ cphPc' = "decrypted"
    /\ UNCHANGED <<cphPlain, cphBlob, cphTamper, sanVars, cvVars, fsVars>>

InitCipher ==
    /\ cphPc = "idle"
    /\ cphPlain \in Plaintexts
    /\ cphBlob = NoResult
    /\ cphTamper = FALSE
    /\ cphOut = NoResult
    /\ SanOff /\ CvOff /\ FsOff

NextCipher == Encrypt \/ Tamper \/ Decrypt

SpecCipher == InitCipher /\ [][NextCipher]_vars

C3_TamperDetected ==
    (cphPc = "decrypted" /\ cphTamper) => ~Ok(cphOut)

(***************************************************************************)
(* SpecIV: the same plaintext is encrypted by two calls of encrypt_data,   *)
(* each with the IV os.urandom(16) returned to it, and both artifacts are  *)
(* decrypted.  cphBlob holds the calls made, cphOut the plaintexts read.   *)
(***************************************************************************)
EncryptCalls == 2

EncryptCall ==
    /\ cphPc = "calls"
    /\ Len(cphBlob) < EncryptCalls
    /\ \E iv \in IVSample, auditOk \in BOOLEAN :
           cphBlob' = Append(cphBlob,
               [iv |-> iv, out |-> encrypt_data(DerivedKey, cphPlain, iv, auditOk)])
    /\ UNCHANGED <<cphPc, cphPlain, cphTamper, cphOut, sanVars, cvVars, fsVars>>

DecryptCalls ==
    /\ cphPc = "calls"
    /\ Len(cphBlob) = EncryptCalls
    /\ \E auditOk \in BOOLEAN :
           cphOut' = [i \in 1..Len(cphBlob) |->
                        IF Ok(cphBlob[i].out)
                        THEN decrypt_data(DerivedKey, cphBlob[i].out.val, auditOk)
                        ELSE NoResult]
    /\ cphPc' = "read"
    /\ UNCHANGED <<cphPlain, cphBlob, cphTamper, sanVars, cvVars, fsVars>>

InitIV ==
    /\ cphPc = "calls"
    /\ cphPlain \in Plaintexts
    /\ cphBlob = <<>>
    /\ cphTamper = FALSE
    /\ cphOut = <<>>
    /\ SanOff /\ CvOff /\ FsOff

NextIV == EncryptCall \/ DecryptCalls

SpecIV == InitIV /\ [][NextIV]_vars

\* the bytes of an artifact
ArtifactBytes(artifact) == b64decode(artifact).val

Unset == "unset"

\* AESEncryption._derive_key: the PBKDF2HMAC is built with
\* backend=self.backend, and reading an attribute that is not there raises
_derive_key(self, secret) ==
    IF self.backend = Unset THEN Raised("AttributeError")
    ELSE Returned(DerivedKey)

\* AESEncryption.__init__: self.key = self._derive_key(...) comes first,
\* self.backend = default_backend() second
AESEncryption(secret) ==
    LET self == [key |-> Unset, backend |-> Unset]
        key  == _derive_key(self, secret)
    IN  IF ~Ok(key) THEN [self |-> self, raised |-> key.raised]
        ELSE [self |-> [key |-> key.val, backend |-> "default_backend"],
              raised |-> ""]

\* encryption = AESEncryption(), run when the module is imported
ImportEncryption ==
    /\ cphPc = "start"
    /\ cphBlob' = AESEncryption("config.ENCRYPTION_KEY")
    /\ cphPc' = "imported"
    /\ UNCHANGED <<cphPlain, cphTamper, cphOut, sanVars, cvVars, fsVars>>

\* a caller uses encryption.encrypt_data; when the import failed there is
\* no object to call
SingletonEncrypt ==
    /\ cphPc = "imported"
    /\ Len(cphOut) < EncryptCalls
    /\ \E iv \in IVSample, auditOk \in BOOLEAN :
           cphOut' = Append(cphOut,
               IF cphBlob.raised = ""
               THEN [key |-> cphBlob.self.key,
                     out |-> encrypt_data(cphBlob.self.key, cphPlain, iv, auditOk)]
               ELSE [key |-> Unset, out |-> Raised("ImportError")])
    /\ UNCHANGED <<cphPc, cphPlain, cphBlob, cphTamper, sanVars, cvVars, fsVars>>

InitKey ==
    /\ cphPc = "start"
    /\ cphPlain \in Plaintexts
    /\ cphBlob = NoResult
    /\ cphTamper = FALSE
    /\ cphOut = <<>>
    /\ SanOff /\ CvOff /\ FsOff

NextKey == ImportEncryption \/ SingletonEncrypt

SpecKey == InitKey /\ [][NextKey]_vars

\* C27: the construction of the process-wide cipher object completes with
\* the key set, and every later encrypt_data call uses that same key.
C27_KeyDerivedAtConstruction ==
    cphPc = "imported" =>
        /\ cphBlob.raised = ""
        /\ cphBlob.self.key = DerivedKey
        /\ \A i \in 1..Len(cphOut) : cphOut[i].key = DerivedKey

(***************************************************************************)
(* Files, spreadsheets and XML trees                                       *)
(***************************************************************************)
\* A path: directory, then f"{pre}{id}{post}{suffix}".
PathOf(dir, pre, id, post, suffix) ==
    [dir |-> dir, pre |-> pre, id |-> id, post |-> post, suffix |-> suffix]

\* pathlib.Path.with_suffix
with_suffix(path, suffix) == [path EXCEPT !.suffix = suffix]

\* Path.exists, open(path, 'w').write and Path.unlink on a file system
exists(f, path) == path \in DOMAIN f
write(f, path, content) ==
    [q \in DOMAIN f \cup {path} |-> IF q = path THEN content ELSE f[q]]
unlink(f, path) == [q \in DOMAIN f \ {path} |-> f[q]]
NoFiles == [q \in {} |-> <<>>]
FilesIn(f, dir) == {q \in DOMAIN f : q.dir = dir}

\* the text of an element that was given none (ElementTree's None)
NoText == <<"(None)">>
Element(tag, text, kids) == [tag |-> tag, text |-> text, kids |-> kids]

T_CALLREPORT      == <<"C","A","L","L","R","E","P","O","R","T">>
T_HEADER          == <<"H","E","A","D","E","R">>
T_BODY            == <<"B","O","D","Y">>
T_Data            == <<"D","a","t","a">>
T_Row             == <<"R","o","w">>
T_CALLREPORT_DATA == T_CALLREPORT \o <<"_","D","A","T","A">>
T_nan             == <<"n","a","n">>

\* cells as pandas hands them to the row loop
NaN        == [kind |-> "nan", n |-> 0, t |-> <<>>]
IntCell(n) == [kind |-> "int", n |-> n, t |-> <<>>]
StrCell(t) == [kind |-> "str", n |-> 0, t |-> t]

DigitText == <<"0","1","2","3","4","5","6","7","8","9">>
RECURSIVE IntToText(_)
\* str(n) of a natural number
IntToText(n) ==
    IF n < 10 THEN <<DigitText[n + 1]>>
    ELSE IntToText(n \div 10) \o <<DigitText[(n % 10) + 1]>>

\* str(value)
str(cell) ==
    CASE cell.kind = "nan" -> T_nan
      [] cell.kind = "int" -> IntToText(cell.n)
      [] OTHER             -> cell.t

\* pandas' renaming of repeated column names: the k-th repeat of X is X.k
mangle_dupe_cols(names) ==
    [i \in 1..Len(names) |->
        LET k == Cardinality({j \in 1..(i - 1) : names[j] = names[i]})
        IN  IF k = 0 THEN names[i] ELSE names[i] \o <<".">> \o IntToText(k)]

\* a dict is a sequence of [k, v] with distinct keys, in insertion order
DictSet(d, k, v) ==
    IF \E i \in 1..Len(d) : d[i].k = k
    THEN [i \in 1..Len(d) |-> IF d[i].k = k THEN [k |-> k, v |-> v] ELSE d[i]]
    ELSE Append(d, [k |-> k, v |-> v])

RECURSIVE DictOf(_)
\* the dict built by assigning the pairs of a list in order
DictOf(pairs) ==
    IF pairs = <<>> THEN <<>>
    ELSE LET p == pairs[Len(pairs)]
         IN  DictSet(DictOf(SubSeq(pairs, 1, Len(pairs) - 1)), p.k, p.v)

\* pd.read_excel(file, sheet_name=...): sheet_name None asks for every sheet
\* and yields a dict of frames, not a frame; "Sheet1" is the sheet there is
SheetNone == "None"
read_excel(content, sheet_name) ==
    IF content.kind # "xlsx" THEN Raised("ValueError: Failed to read Excel file")
    ELSE IF sheet_name = SheetNone
         THEN Returned([kind |-> "dict"])
    ELSE IF sheet_name # "Sheet1"
         THEN Raised("ValueError: Failed to read Excel file")
    ELSE Returned([kind |-> "frame",
                   columns |-> mangle_dupe_cols(content.columns),
                   rows |-> content.rows])

\* DataFrame.empty
df_empty(df) == Len(df.rows) = 0 \/ Len(df.columns) = 0

\* minidom.parseString(ET.tostring(root)): element names are written as
\* they are, and the parser refuses a document with an ill-formed name
RECURSIVE AllTags(_)
AllTags(e) ==
    {e.tag} \cup UNION {AllTags(e.kids[i]) : i \in 1..Len(e.kids)}
_prettify_xml(root) ==
    IF \A t \in AllTags(root) : WellFormedName(t)
    THEN Returned(root) ELSE Raised("ExpatError")

(***************************************************************************)
(* utils.converter.ExcelToXMLConverter                                     *)
(***************************************************************************)
\* _create_header: the HEADER element (called only with a non-empty dict)
_create_header(header_fields) ==
    Element(T_HEADER, NoText,
            [i \in 1..Len(header_fields) |->
                Element(replace_space(header_fields[i].k),
                        header_fields[i].v, <<>>)])

\* _process_excel_data, one cell
cell_text(cell) ==
    IF cell.kind = "nan" THEN <<>> ELSE str(cell)

\* _process_excel_data: one record (a dict column -> text) per row
_process_excel_data(df) ==
    [r \in 1..Len(df.rows) |->
        DictOf([c \in 1..Len(df.columns) |->
                   [k |-> df.columns[c], v |-> cell_text(df.rows[r][c])]])]

\* _create_data_section: the Data element with one Row per record, or the
\* exception of the first field name that _sanitize_xml_tag refuses
_create_data_section(records) ==
    LET fields == IF records = <<>> THEN <<>> ELSE records[1]
        bad    == {c \in 1..Len(fields) : ~Ok(_sanitize_xml_tag(fields[c].k))}
    IN  IF bad # {}
        THEN _sanitize_xml_tag(fields[CHOOSE c \in bad : \A d \in bad : c <= d].k)
        ELSE Returned(Element(T_Data, NoText,
                 [r \in 1..Len(records) |->
                     Element(T_Row, NoText,
                         [c \in 1..Len(records[r]) |->
                             Element(_sanitize_xml_tag(records[r][c].k).val,
                                     records[r][c].v, <<>>)])]))

XmlFile(tree)       == [kind |-> "xml", tree |-> tree]
EncFile(iv, plain)  == [kind |-> "enc", iv |-> iv, plain |-> plain]

\* AESEncryption.encrypt_file: the artifact written is the encryption of the
\* input file under a fresh IV.  fault says which collaborator call raises.
encrypt_file(f, input_path, output_path, iv, fault) ==
    IF ~exists(f, input_path) THEN [fs |-> f, raised |-> "FileNotFoundError"]
    ELSE IF fault = "encrypt_data" THEN [fs |-> f, raised |-> AuditError]
    ELSE LET f1 == write(f, output_path, EncFile(iv, f[input_path]))
         IN  IF fault = "encrypt_file_audit"
             THEN [fs |-> f1, raised |-> AuditError]
             ELSE [fs |-> f1, raised |-> ""]

\* AESEncryption.decrypt_file
decrypt_file(f, input_path, output_path, fault) ==
    IF ~exists(f, input_path) THEN [fs |-> f, raised |-> "FileNotFoundError"]
    ELSE IF f[input_path].kind # "enc" \/ fault = "decrypt_data"
         THEN [fs |-> f, raised |-> "DecryptError"]
    ELSE LET f1 == write(f, output_path, f[input_path].plain)
         IN  IF fault = "decrypt_file_audit"
             THEN [fs |-> f1, raised |-> AuditError]
             ELSE [fs |-> f1, raised |-> ""]

NoTree == Element(<<>>, NoText, <<>>)
EmptyFileError == "ValueError: Excel file is empty"
\* the outcome of a conversion: the file system it leaves, what it raised,
\* the tree it built and whether it wrote the plaintext output
Outcome(f, raised, tree, wrote) ==
    [fs |-> f, raised |-> raised, tree |-> tree, wrote |-> wrote]

\* convert, lines 169-196 with encrypt_output: encrypt_file, the audit event,
\* then output_file.unlink(); an exception on the way skips what follows
convert_encrypt_tail(f1, output_file, root, iv, fault) ==
    LET enc == encrypt_file(f1, output_file, with_suffix(output_file, ".xml.enc"),
                            iv, fault)
    IN  IF enc.raised # "" THEN Outcome(enc.fs, enc.raised, root, TRUE)
        ELSE IF fault = "conversion_audit"
             THEN Outcome(enc.fs, AuditError, root, TRUE)
             ELSE Outcome(unlink(enc.fs, output_file), "", root, TRUE)

\* convert, lines 169-196 without encrypt_output
convert_plain_tail(f1, root, fault) ==
    IF fault = "conversion_audit"
    THEN Outcome(f1, AuditError, root, TRUE)
    ELSE Outcome(f1, "", root, TRUE)

\* convert, lines 130-137: what reading and checking the frame raises
convert_checks(df) ==
    IF ~Ok(df) THEN df.raised
    ELSE IF df.val.kind = "dict" THEN "AttributeError"
    ELSE IF df_empty(df.val) THEN EmptyFileError
    ELSE ""

\* ExcelToXMLConverter.convert
convert(f, input_file, output_file, header_fields, sheet_name, encrypt_output, iv, fault) ==
    IF ~exists(f, input_file) THEN Outcome(f, "FileNotFoundError", NoTree, FALSE)
    ELSE LET df == read_excel(f[input_file], sheet_name)
         IN  IF convert_checks(df) # ""
             THEN Outcome(f, convert_checks(df), NoTree, FALSE)
             ELSE LET header  == IF header_fields # <<>>
                                 THEN <<_create_header(header_fields)>> ELSE <<>>
                      body    == Element(T_BODY, NoText, <<>>)
                      records == _process_excel_data(df.val)
                      data    == _create_data_section(records)
                      root    == Element(T_CALLREPORT, NoText,
                                         header \o <<body, data.val>>)
                  IN  IF ~Ok(data) THEN Outcome(f, data.raised, NoTree, FALSE)
                      ELSE IF ~Ok(_prettify_xml(root))
                           THEN Outcome(f, _prettify_xml(root).raised, NoTree, FALSE)
                      ELSE LET f1 == write(f, output_file, XmlFile(root))
                           IN  IF encrypt_output
                               THEN convert_encrypt_tail(f1, output_file, root, iv, fault)
                               ELSE convert_plain_tail(f1, root, fault)

(***************************************************************************)
(* main.convert_excel_to_xml                                               *)
(***************************************************************************)
\* config.OUTPUT_DIR, and the directory routes/converter.py reads from
\* config.UPLOAD_DIR
OutputDir == "output"
UploadDir == "upload"

\* main.py line 178: the text of a data cell
main_cell_text(cell) == str(cell)

\* main.py lines 165-178: the tree
main_tree(header_fields_dict, df) ==
    Element(T_CALLREPORT, NoText,
        << Element(T_HEADER, NoText,
               [i \in 1..Len(header_fields_dict) |->
                   Element(sanitize_tag(header_fields_dict[i].k),
                           header_fields_dict[i].v, <<>>)]),
           Element(T_BODY, NoText,
               [r \in 1..Len(df.rows) |->
                   Element(T_CALLREPORT_DATA, NoText,
                       [c \in 1..Len(df.columns) |->
                           Element(sanitize_tag(df.columns[c]),
                                   main_cell_text(df.rows[r][c]), <<>>)])]) >>)

\* convert_excel_to_xml: header_list is the decoded header_fields form field,
\* file_content the upload, now the clock the output is named after
convert_excel_to_xml(f, file_content, header_list, now) ==
    LET df == read_excel(file_content, "Sheet1")
    IN  IF ~Ok(df) THEN Outcome(f, "HTTP 500", NoTree, FALSE)
        ELSE LET root == main_tree(DictOf(header_list), df.val)
                 output_path == PathOf(OutputDir, "converted_", now, "", ".xml")
             IN  IF ~Ok(_prettify_xml(root)) THEN Outcome(f, "HTTP 500", NoTree, FALSE)
                 ELSE Outcome(write(f, output_path, XmlFile(root)), "", root, TRUE)

(***************************************************************************)
(* SpecConv: one spreadsheet is in the upload directory; one conversion    *)
(* entry point is called on it once.                                       *)
(***************************************************************************)
MaxRows == 2

T_Age       == <<"A","g","e">>
T_Name      == <<"N","a","m","e">>
T_FirstName == <<"F","i","r","s","t"," ">> \o T_Name
T_A         == <<"A">>
T_Jo        == <<"J","o">>
T_Region    == <<"R","e","g","i","o","n">>
T_NorthWest == <<"N","o","r","t","h"," ","W","e","s","t">>

ColumnSets == {<<T_Age>>, <<T_FirstName, T_Age>>, <<T_Name, T_Age>>, <<T_A, T_A>>}
CellSample == {NaN, IntCell(30), StrCell(T_Jo)}
RowSeqs(n) == UNION {[1..k -> [1..n -> CellSample]] : k \in 0..MaxRows}
Workbooks ==
    UNION {{[kind |-> "xlsx", columns |-> cols, rows |-> rows] :
               rows \in RowSeqs(Len(cols))} : cols \in ColumnSets}
\* what an upload may hold: a workbook, or bytes that are no workbook
Uploads == Workbooks \cup {[kind |-> "corrupt"]}

T_A_B       == <<"A","_","B">>
T_A_space_B == <<"A"," ","B">>
\* the header fields a caller may supply: none, one well-named field, a
\* field whose name is empty, one of disallowed characters only, one with
\* a letter outside ASCII, and two names that differ only by space and
\* underscore
HeaderDicts ==
    {<<>>,
     <<[k |-> T_Region, v |-> T_NorthWest]>>,
     <<[k |-> <<>>, v |-> T_Jo]>>,
     <<[k |-> <<"$">>, v |-> T_Jo]>>,
     <<[k |-> <<EAcute>>, v |-> T_Jo]>>,
     <<[k |-> T_A_space_B, v |-> T_Jo], [k |-> T_A_B, v |-> T_NorthWest]>>}
SheetNames  == {SheetNone, "Sheet1", "Sheet9"}
FileIVs     == {1, 2}
ConvertFaults(encrypt_output) ==
    IF encrypt_output
    THEN {"none", "encrypt_data", "encrypt_file_audit", "conversion_audit"}
    ELSE {"none", "conversion_audit"}

InputPath  == PathOf(UploadDir, "", 1, "_input", ".xlsx")
OutputPath == PathOf(OutputDir, "", 1, "_output", ".xml")

\* convert_file lines 128-141: header_fields[tagName.replace(' ', '_')] = tagValue
route_header_fields(request) ==
    DictOf([i \in 1..Len(request.header_fields) |->
               [k |-> replace_space(request.header_fields[i].k),
                v |-> request.header_fields[i].v]])

\* converter.convert(InputPath, OutputPath, ...) as convert_file calls it
UtilsConvert ==
    /\ cvPc = "ready"
    /\ \E header_array \in HeaderDicts, sheet_name \in SheetNames,
          encrypt_output \in BOOLEAN, iv \in FileIVs :
         \E fault \in ConvertFaults(encrypt_output) :
           \* the dict convert_file builds from the request's header array
           LET header_fields == route_header_fields([header_fields |-> header_array])
               o == convert(fs, InputPath, OutputPath, header_fields, sheet_name,
                            encrypt_output, iv, fault)
           IN  /\ fs' = o.fs
               /\ cvOut' = [raised |-> o.raised, tree |-> o.tree, wrote |-> o.wrote]
               /\ cvCall' = [entry |-> "utils", header_fields |-> header_array,
                             sheet_name |-> sheet_name,
                             encrypt_output |-> encrypt_output, fault |-> fault,
                             input |-> fs[InputPath]]
    /\ cvPc' = "done"
    /\ UNCHANGED <<clock, jobs, resp, sanVars, cphVars>>

\* main.convert_excel_to_xml(upload, header_fields)
MainConvert ==
    /\ cvPc = "ready"
    /\ \E header_list \in HeaderDicts :
           LET o == convert_excel_to_xml(fs, fs[InputPath], header_list, clock)
           IN  /\ fs' = o.fs
               /\ cvOut' = [raised |-> o.raised, tree |-> o.tree, wrote |-> o.wrote]
               /\ cvCall' = [entry |-> "main", header_fields |-> header_list,
                             sheet_name |-> "Sheet1", encrypt_output |-> FALSE,
                             fault |-> "none", input |-> fs[InputPath]]
    /\ cvPc' = "done"
    /\ UNCHANGED <<clock, jobs, resp, sanVars, cphVars>>

InitConv ==
    /\ cvPc = "ready"
    /\ cvCall = <<>>
    /\ cvOut = NoOutcome
    /\ \E upload \in Uploads : fs = write(NoFiles, InputPath, upload)
    /\ clock = 0 /\ jobs = <<>> /\ resp = <<>>
    /\ SanOff /\ CphOff

NextConv == UtilsConvert \/ MainConvert

SpecConv == InitConv /\ [][NextConv]_vars

\* the record elements of a tree: the children of its BODY and Data elements
RECURSIVE Concat(_)
Concat(ss) == IF ss = <<>> THEN <<>> ELSE Head(ss) \o Concat(Tail(ss))
RecordsOf(tree) ==
    Concat([i \in 1..Len(tree.kids) |->
               IF tree.kids[i].tag \in {T_BODY, T_Data}
               THEN tree.kids[i].kids ELSE <<>>])

\* C1: when ExcelToXMLConverter.convert called with encrypt_output ends, by
\* returning or by raising after the plaintext XML was written, no plaintext
\* file is left at output_file.
C1_NoPlaintextLeft ==
    (cvPc = "done" /\ cvCall.entry = "utils" /\ cvCall.encrypt_output
        /\ cvOut.wrote) => ~exists(fs, OutputPath)

\* C6: a spreadsheet with zero data rows makes the conversion fail, and no
\* file is created in the output directory, for both entry points.
C6_EmptySourceRejected ==
    (cvPc = "done" /\ cvCall.input.kind = "xlsx" /\ cvCall.input.rows = <<>>) =>
        /\ cvOut.raised # ""
        /\ FilesIn(fs, OutputDir) = {}

\* C9: in the output of either entry point, every missing cell has a field
\* element in its row's record, at its column, with empty text.
C9_MissingCellEmptyText ==
    (cvPc = "done" /\ cvOut.raised = "") =>
        \A r \in 1..Len(cvCall.input.rows) :
            \A c \in 1..Len(cvCall.input.columns) :
                cvCall.input.rows[r][c] = NaN =>
                    /\ r <= Len(RecordsOf(cvOut.tree))
                    /\ c <= Len(RecordsOf(cvOut.tree)[r].kids)
                    /\ RecordsOf(cvOut.tree)[r].kids[c].text = <<>>

\* C10: ExcelToXMLConverter.convert, without header fields, of a source with
\* the columns 'First Name' and 'Age' succeeds, and each record's first field
\* has the tag First_Name and the cell's string form as text.
C10_WhitespaceColumnConverted ==
    (cvPc = "done" /\ cvCall.entry = "utils" /\ cvCall.header_fields = <<>>
        /\ cvCall.sheet_name = "Sheet1" /\ cvCall.fault = "none"
        /\ cvCall.input.kind = "xlsx"
        /\ cvCall.input.columns = <<T_FirstName, T_Age>>
        /\ cvCall.input.rows # <<>>) =>
        /\ cvOut.raised = ""
        /\ \A r \in 1..Len(cvCall.input.rows) :
               /\ RecordsOf(cvOut.tree)[r].kids[1].tag = re_sub_ws(T_FirstName)
               /\ RecordsOf(cvOut.tree)[r].kids[1].text
                      = cell_text(cvCall.input.rows[r][1])

\* the children of a tree's root other than the HEADER element
BodyContainers(tree) == SelectSeq(tree.kids, LAMBDA k : k.tag # T_HEADER)
HasHeader(tree) == \E i \in 1..Len(tree.kids) : tree.kids[i].tag = T_HEADER

\* C11: the tree ExcelToXMLConverter.convert builds has exactly one body
\* container under the root; it holds one record per source row, in row
\* order, and each record one field per source column, in column order.
C11_OneBodyWithRecords ==
    (cvPc = "done" /\ cvCall.entry = "utils" /\ cvOut.wrote) =>
        LET body == BodyContainers(cvOut.tree)
            cols == mangle_dupe_cols(cvCall.input.columns)
        IN  /\ Len(body) = 1
            /\ Len(body[1].kids) = Len(cvCall.input.rows)
            /\ \A r \in 1..Len(cvCall.input.rows) :
                   /\ Len(body[1].kids[r].kids) = Len(cols)
                   /\ \A c \in 1..Len(cols) :
                          /\ _sanitize_xml_tag(cols[c])
                                 = Returned(body[1].kids[r].kids[c].tag)
                          /\ body[1].kids[r].kids[c].text
                                 = cell_text(cvCall.input.rows[r][c])

\* C12: the root of the output tree of either entry point has a HEADER
\* child if and only if a non-empty set of header fields was supplied.
C12_HeaderIffFields ==
    (cvPc = "done" /\ cvOut.wrote) =>
        (HasHeader(cvOut.tree) <=> cvCall.header_fields # <<>>)

\* the elements under the HEADER child of a tree
HeaderChildren(tree) ==
    Concat([i \in 1..Len(tree.kids) |->
               IF tree.kids[i].tag = T_HEADER THEN tree.kids[i].kids ELSE <<>>])

\* a name with nothing left once whitespace runs are replaced and the
\* characters outside [a-zA-Z0-9_.-] removed
SanitizesToEmpty(name) == re_sub_invalid(re_sub_ws(name)) = <<>>

\* C23: when a supplied header field name is empty or has only disallowed
\* characters, the conversion fails and writes no artifact; and no Header
\* element with an empty, fallback or underscore-only name is emitted.
C23_BadHeaderNameRejected ==
    cvPc = "done" =>
        /\ (\E i \in 1..Len(cvCall.header_fields) :
                SanitizesToEmpty(cvCall.header_fields[i].k)) =>
              (cvOut.raised # "" /\ ~cvOut.wrote)
        /\ cvOut.wrote =>
              \A i \in 1..Len(HeaderChildren(cvOut.tree)) :
                  LET tag == HeaderChildren(cvOut.tree)[i].tag
                  IN  /\ tag # <<"E","M","P","T","Y","_","T","A","G">>
                      /\ \E c \in 1..Len(tag) : tag[c] # "_"

\* the element name an entry point gives a supplied header name
HeaderTagOf(entry, name) ==
    IF entry = "main" THEN sanitize_tag(name) ELSE replace_space(name)

\* C24: when two supplied header names map to the same element name, the
\* Header section has at most one element of that name, with the value
\* supplied last, or the request is rejected.
C24_CollidingNamesLastWins ==
    (cvPc = "done" /\ cvOut.wrote) =>
        LET kids     == HeaderChildren(cvOut.tree)
            supplied == cvCall.header_fields
        IN  \A i \in 1..Len(kids) :
                /\ \A j \in 1..Len(kids) : kids[j].tag = kids[i].tag => j = i
                /\ \E n \in 1..Len(supplied) :
                      /\ HeaderTagOf(cvCall.entry, supplied[n].k) = kids[i].tag
                      /\ supplied[n].v = kids[i].text
                      /\ \A m \in (n + 1)..Len(supplied) :
                            HeaderTagOf(cvCall.entry, supplied[m].k) # kids[i].tag

\* the field elements of a tree: Header children and the children of records
FieldElements(tree) ==
    HeaderChildren(tree)
        \o Concat([r \in 1..Len(RecordsOf(tree)) |-> RecordsOf(tree)[r].kids])

\* C25: every element of the tree ExcelToXMLConverter.convert serializes
\* has a name matching ^[A-Za-z_][A-Za-z0-9_.-]*$, and every field element,
\* from a header name or from a column, has a string (not None) as text.
C25_NamesAndTextValid ==
    (cvPc = "done" /\ cvCall.entry = "utils" /\ cvOut.wrote) =>
        /\ \A t \in AllTags(cvOut.tree) : MatchesTagRegex(t)
        /\ \A i \in 1..Len(FieldElements(cvOut.tree)) :
              FieldElements(cvOut.tree)[i].text # NoText

(***************************************************************************)
(* routes.converter: convert_file and download_file                        *)
(***************************************************************************)
MAX_UPLOAD_SIZE_MB == 10
MaxUploadBytes == MAX_UPLOAD_SIZE_MB * 1024 * 1024

\* the request_data form field: absent, text that is not JSON, or an object
NoRequest      == [kind |-> "absent", header_fields |-> <<>>,
                   encrypt_output |-> FALSE, sheet_name |-> SheetNone]
InvalidRequest == [NoRequest EXCEPT !.kind = "invalid"]
JsonRequest(header_array, encrypt_output, sheet_name) ==
    [kind |-> "json", header_fields |-> header_array,
     encrypt_output |-> encrypt_output, sheet_name |-> sheet_name]

\* a cleanup that forgets the uploaded input
route_cleanup_output_only(f, input_path, output_path, fault) ==
    IF exists(f, output_path)
    THEN [fs |-> unlink(f, output_path),
          raised |-> IF fault = "audit_delete" THEN AuditError ELSE ""]
    ELSE [fs |-> f, raised |-> ""]

\* convert_file lines 241-252, the finally block: each path that exists is
\* unlinked and the deletion reported to the audit sink
route_cleanup(f, input_path, output_path, fault) ==
    LET f1 == IF exists(f, input_path) THEN unlink(f, input_path) ELSE f
    IN  IF exists(f, input_path) /\ fault = "audit_delete"
        THEN [fs |-> f1, raised |-> AuditError]
        ELSE IF exists(f1, output_path)
             THEN [fs |-> unlink(f1, output_path),
                   raised |-> IF fault = "audit_delete" THEN AuditError ELSE ""]
             ELSE [fs |-> f1, raised |-> ""]

\* What convert_file leaves: the file system, the response (a status, or the
\* exception that escaped the handler), the text of the internal exception
\* that the HTTPException's detail was built from ("" when it holds none),
\* whether the upload was written to input_path, and the tree of the
\* artifact it announced.
RouteResult(f, status, exc, wroteInput, tree) ==
    [fs |-> f, status |-> status, exc |-> exc, wroteInput |-> wroteInput,
     tree |-> tree]

\* convert_file.  file_id is the uuid drawn, upload the file sent (content
\* and size in bytes), request the request_data field, fault the collaborator
\* call that raises.
convert_file(f, file_id, upload, request, iv, fault) ==
    LET input_path  == PathOf(UploadDir, "", file_id, "_input", ".xlsx")
        output_path == PathOf(OutputDir, "", file_id, "_output", ".xml")
        \* the handler's exit through the finally block once the paths are set
        Finish(f1, status, exc, tree) ==
            LET c == route_cleanup(f1, input_path, output_path, fault)
            IN  IF c.raised # ""
                THEN RouteResult(c.fs, c.raised, "", TRUE, tree)
                ELSE RouteResult(c.fs, status, exc, TRUE, tree)
    IN  IF fault \in {"audit_upload", "upload_dir"} \/ request.kind = "invalid"
        \* the handler fails before input_path is bound, and the finally
        \* block's use of it raises
        THEN RouteResult(f, "UnboundLocalError", "", FALSE, NoTree)
        ELSE LET f1 == write(f, input_path, upload.content)
             IN  IF upload.size > MaxUploadBytes
                 THEN Finish(unlink(f1, input_path), "HTTP 413", "", NoTree)
                 ELSE IF fault = "audit_save"
                      THEN Finish(unlink(f1, input_path), "HTTP 500", AuditError,
                                  NoTree)
                 ELSE LET o == convert(f1, input_path, output_path,
                                       route_header_fields(request),
                                       request.sheet_name,
                                       request.encrypt_output, iv, fault)
                      IN  IF o.raised # ""
                          THEN Finish(o.fs, "HTTP 500", o.raised, NoTree)
                          ELSE IF fault = "audit_conversion_route"
                          THEN Finish(o.fs, "HTTP 500", AuditError, NoTree)
                          ELSE Finish(o.fs, "success", "", o.tree)

NoBody == [kind |-> "none"]
\* What download_file leaves: the file system, the status, the text of the
\* exception its detail was built from and the bytes served.
DownloadResult(f, file_id, status, exc, body) ==
    [fs |-> f, file_id |-> file_id, status |-> status, exc |-> exc,
     body |-> body]

\* download_file without the response's background unlink of the transient
\* copy: what the route would be if the decrypted file stayed on disk
download_file_keeping_temp(f, file_id, fault) ==
    LET encrypted_path   == PathOf(OutputDir, "", file_id.id, file_id.post, ".xml.enc")
        unencrypted_path == PathOf(OutputDir, "", file_id.id, file_id.post, ".xml")
        temp_path        == PathOf(OutputDir, "temp_", file_id.id, file_id.post, ".xml")
    IN  IF ~exists(f, encrypted_path) /\ ~exists(f, unencrypted_path)
        THEN DownloadResult(f, file_id, "HTTP 400", "404: File not found", NoBody)
        ELSE IF exists(f, unencrypted_path)
             THEN IF fault = "audit_download"
                  THEN DownloadResult(f, file_id, "HTTP 400", AuditError, NoBody)
                  ELSE DownloadResult(f, file_id, "200", "", f[unencrypted_path])
        ELSE IF fault = "audit_download"
             THEN DownloadResult(f, file_id, "HTTP 400", AuditError, NoBody)
        ELSE LET d == decrypt_file(f, encrypted_path, temp_path, fault)
             IN  IF d.raised # ""
                 THEN DownloadResult(d.fs, file_id, "HTTP 400", d.raised, NoBody)
                 ELSE DownloadResult(d.fs, file_id, "200", "", d.fs[temp_path])

\* download_file up to `return FileResponse(...)`.  file_id is the path
\* parameter: the text the client put after /download/, here an id followed
\* by "" or by "_output".  The 404 raised at line 272 is caught by the
\* handler's own except clause and answered as a 400 whose detail is str()
\* of that exception.  body is the content of the file the response is to
\* send; the transient copy is still on disk.
download_handler(f, file_id, fault) ==
    LET encrypted_path   == PathOf(OutputDir, "", file_id.id, file_id.post, ".xml.enc")
        unencrypted_path == PathOf(OutputDir, "", file_id.id, file_id.post, ".xml")
        temp_path        == PathOf(OutputDir, "temp_", file_id.id, file_id.post, ".xml")
    IN  IF ~exists(f, encrypted_path) /\ ~exists(f, unencrypted_path)
        THEN DownloadResult(f, file_id, "HTTP 400", "404: File not found", NoBody)
        ELSE IF exists(f, unencrypted_path)
             THEN IF fault = "audit_download"
                  THEN DownloadResult(f, file_id, "HTTP 400", AuditError, NoBody)
                  ELSE DownloadResult(f, file_id, "200", "", f[unencrypted_path])
        ELSE IF fault = "audit_download"
             THEN DownloadResult(f, file_id, "HTTP 400", AuditError, NoBody)
        ELSE LET d == decrypt_file(f, encrypted_path, temp_path, fault)
             IN  IF d.raised # ""
                 THEN DownloadResult(d.fs, file_id, "HTTP 400", d.raised, NoBody)
                 ELSE DownloadResult(d.fs, file_id, "200", "", d.fs[temp_path])

\* download_file served with no other request in between: the handler, the
\* sending of the file, then the response's background call, which unlinks
\* the transient copy (background is None when the plain file is served)
download_file(f, file_id, fault) ==
    LET unencrypted_path == PathOf(OutputDir, "", file_id.id, file_id.post, ".xml")
        temp_path        == PathOf(OutputDir, "temp_", file_id.id, file_id.post, ".xml")
        h == download_handler(f, file_id, fault)
    IN  IF h.status = "200" /\ ~exists(f, unencrypted_path)
        THEN [h EXCEPT !.fs = unlink(h.fs, temp_path)]
        ELSE h

(***************************************************************************)
(* routes.converter.validate_file and ExcelToXMLConverter.validate_excel_file *)
(***************************************************************************)
\* validate_excel_file lines 230-257: the required columns, in the order of
\* data_type_rules, each with the type its values must convert to
data_type_rules ==
    <<
       [name |-> <<"S","N">>,
        type |-> "int"],
       [name |-> <<"B","R","A","N","C","H","_","C","O","D","E">>,
        type |-> "int"],
       [name |-> <<"D","E","A","L","_","N","O">>,
        type |-> "int"],
       [name |-> <<"U","N","I","Q","U","E","_","I","D">>,
        type |-> "str"],
       [name |-> <<"C","I","F","_","N","O","1">>,
        type |-> "int"],
       [name |-> <<"N","U","B","A","N">>,
        type |-> "float"],
       [name |-> <<"N","A","M","E">>,
        type |-> "str"],
       [name |-> <<"D","E","A","L","_","A","M","O","U","N","T">>,
        type |-> "float"],
       [name |-> <<"P","R","I","N","C","I","P","A","L","_","O","U","T","S","T","A","N","D","I","N","G">>,
        type |-> "float"],
       [name |-> <<"P","A","S","T","_","D","U","E","_","B","A","L","A","N","C","E">>,
        type |-> "float"],
       [name |-> <<"T","O","T","A","L","_","E","X","P","O","S","U","R","E">>,
        type |-> "float"],
       [name |-> <<"P","A","S","T","_","D","U","E","_","D","A","Y","S">>,
        type |-> "int"],
       [name |-> <<"V","A","L","U","E","_","D","A","T","E">>,
        type |-> "datetime"],
       [name |-> <<"M","A","T","U","R","I","T","Y","_","D","A","T","E">>,
        type |-> "datetime"],
       [name |-> <<"B","V","N">>,
        type |-> "str"],
       [name |-> <<"C","R","M","S","_","C","O","D","E">>,
        type |-> "str"]
    >>

\* lines 259-277 for one column: the conversion must not raise (a text that
\* is no number makes pd.to_numeric and pd.to_datetime raise) and must leave
\* no null (astype(str) turns a missing value into the text 'nan')
column_ok(type, cells) ==
    \A i \in 1..Len(cells) :
        \/ type = "str"
        \/ cells[i].kind = "int"
        \/ /\ cells[i].kind = "str" /\ cells[i].t # <<>>
           /\ \A k \in 1..Len(cells[i].t) : cells[i].t[k] \in Digits

\* Config.ALLOWED_EXTENSIONS
ALLOWED_EXTENSIONS == {".xls", ".xlsx"}

\* ExcelToXMLConverter.validate_excel_file: every exception is caught and
\* reported to the audit sink, whose own exception escapes
validate_excel_file(content, ext, fault) ==
    IF ext \notin ALLOWED_EXTENSIONS THEN Returned(FALSE)
    ELSE LET df == read_excel(content, "Sheet1")
         IN  IF ~Ok(df)
             THEN IF fault = "validate_audit" THEN Raised(AuditError)
                  ELSE Returned(FALSE)
             ELSE IF df_empty(df.val) THEN Returned(FALSE)
             ELSE IF \E i \in 1..Len(data_type_rules) :
                        \A c \in 1..Len(df.val.columns) :
                            df.val.columns[c] # data_type_rules[i].name
                  THEN Returned(FALSE)
             ELSE Returned(\A i \in 1..Len(data_type_rules) :
                      \A c \in 1..Len(df.val.columns) :
                          df.val.columns[c] = data_type_rules[i].name =>
                              column_ok(data_type_rules[i].type,
                                        [r \in 1..Len(df.val.rows) |->
                                            df.val.rows[r][c]]))

\* FileValidationResponse(...): the validators of file_size and file_type
\* (schemas.py lines 69-88) raise for a size above the limit and for an
\* extension that is not allowed
FileValidationResponse(is_valid, file_size, file_type) ==
    IF file_size > MaxUploadBytes \/ file_type \notin ALLOWED_EXTENSIONS
    THEN Raised("ValidationError")
    ELSE Returned([is_valid |-> is_valid, file_size |-> file_size,
                   file_type |-> file_type])

\* validate_file.  upload is the file sent (content, size, extension of its
\* name), file_id the uuid of the temporary file.  The result is the file
\* system left, the status ("200" with the validation response as body, or
\* the HTTPException / the exception that escaped) and the text of the
\* exception the detail was built from.
validate_file(f, file_id, upload, fault) ==
    LET temp_path == PathOf(UploadDir, "temp_", file_id, "", upload.ext)
        Answer(f1, response) ==
            IF Ok(response)
            THEN [fs |-> f1, status |-> "200", exc |-> "", body |-> response.val]
            ELSE IF fault = "audit_validate_route"
            THEN [fs |-> f1, status |-> AuditError, exc |-> "", body |-> NoBody]
            ELSE [fs |-> f1, status |-> "HTTP 400", exc |-> response.raised,
                  body |-> NoBody]
    IN  IF upload.size > MaxUploadBytes \/ upload.ext \notin ALLOWED_EXTENSIONS
        THEN Answer(f, FileValidationResponse(FALSE, upload.size, upload.ext))
        ELSE IF fault = "upload_dir" THEN Answer(f, Raised("AttributeError"))
        ELSE LET f1 == write(f, temp_path, upload.content)
                 is_valid == validate_excel_file(upload.content, upload.ext, fault)
             IN  IF ~Ok(is_valid) THEN Answer(f1, is_valid)
                 ELSE Answer(unlink(f1, temp_path),
                             FileValidationResponse(is_valid.val, upload.size,
                                                    upload.ext))

(***************************************************************************)
(* Spec: convert_file requests are served one after the other, each under  *)
(* a fresh file id; download_file requests come in between.                *)
(***************************************************************************)
MaxJobs == 2

\* a workbook that converts, one without rows, and bytes that are no workbook
GoodWorkbook  == [kind |-> "xlsx", columns |-> <<T_Name, T_Age>>,
                  rows |-> <<<<StrCell(T_Jo), IntCell(30)>>>>]
EmptyWorkbook == [kind |-> "xlsx", columns |-> <<T_Age>>, rows |-> <<>>]
UploadSizes == {1, MaxUploadBytes, MaxUploadBytes + 1}
RouteUploads ==
    {[content |-> GoodWorkbook, size |-> n] : n \in UploadSizes}
        \cup {[content |-> c, size |-> 1] : c \in {EmptyWorkbook, [kind |-> "corrupt"]}}
RouteRequests ==
    {NoRequest, InvalidRequest,
     JsonRequest(<<>>, FALSE, "Sheet1"),
     JsonRequest(<<[k |-> T_Region, v |-> T_NorthWest]>>, TRUE, "Sheet1")}
\* the calls of a convert_file request that may raise: the audit events,
\* the lookup of config.UPLOAD_DIR (config.py defines no such attribute, so
\* as the repository stands line 165 raises), the upload's stream (a raise
\* there ends as "audit_save" does) and those inside converter.convert
RouteFaults(request) ==
    IF request.kind = "invalid" THEN {"none"}
    ELSE {"audit_upload", "upload_dir", "audit_save", "audit_conversion_route",
          "audit_delete"}
             \cup ConvertFaults(request.encrypt_output)
\* the IV is drawn only when the output is encrypted; the routes never look
\* at it, so one draw stands for the others here (SpecIV follows the draws)
RouteIVs(request) == {1}
\* the collaborator calls of a download_file request that may raise: none
\* is made before the artifact is found, and the decryption is called only
\* when the plain file is absent
DownloadFaults(f, file_id) ==
    IF exists(f, PathOf(OutputDir, "", file_id.id, file_id.post, ".xml"))
    THEN {"none", "audit_download"}
    ELSE IF exists(f, PathOf(OutputDir, "", file_id.id, file_id.post, ".xml.enc"))
         THEN {"none", "audit_download", "decrypt_data", "decrypt_file_audit"}
         ELSE {"none"}

ConvertFile ==
    /\ Len(jobs) < MaxJobs
    /\ \E upload \in RouteUploads, request \in RouteRequests :
         \E iv \in RouteIVs(request), fault \in RouteFaults(request) :
           LET file_id == Len(jobs) + 1
               r == convert_file(fs, file_id, upload, request, iv, fault)
           IN  /\ fs' = r.fs
               /\ jobs' = Append(jobs, [status |-> r.status,
                                        encrypt_output |-> request.encrypt_output,
                                        wroteInput |-> r.wroteInput,
                                        tree |-> r.tree])
    \* the downloads observed are those since the last conversion
    /\ resp' = <<>>
    /\ UNCHANGED <<clock, sanVars, cphVars, cvVars>>

\* the references a client may ask for: an id handed out so far or one that
\* never was, as announced or followed by "_output"
FileRefs(n) == {[id |-> i, post |-> post] : i \in 1..(n + 1), post \in {"", "_output"}}

\* the bytes the earliest successful download of file_id served, among the
\* download_file requests made for it since the last conversion
ServedBefore(file_id) ==
    IF resp # <<>> /\ resp.file_id = file_id
    THEN IF resp.before # NoBody THEN resp.before
         ELSE IF resp.status = "200" THEN resp.body ELSE NoBody
    ELSE NoBody

DownloadFile ==
    /\ \E file_id \in FileRefs(Len(jobs)) :
         \E fault \in DownloadFaults(fs, file_id) :
           LET r == download_file(fs, file_id, fault)
           IN  /\ fs' = r.fs
               /\ resp' = [file_id |-> r.file_id, status |-> r.status,
                           body |-> r.body,
                           found |-> DownloadFaults(fs, file_id) # {"none"},
                           changed |-> r.fs # fs,
                           tempLeft |-> exists(r.fs, PathOf(OutputDir, "temp_",
                                               file_id.id, file_id.post, ".xml")),
                           before |-> ServedBefore(file_id)]
    /\ UNCHANGED <<clock, jobs, sanVars, cphVars, cvVars>>

Init ==
    /\ fs = NoFiles
    /\ clock = 0
    /\ jobs = <<>>
    /\ resp = <<>>
    /\ SanOff /\ CphOff /\ CvOff

Next == ConvertFile \/ DownloadFile

Spec == Init /\ [][Next]_vars

JobInputPath(i) == PathOf(UploadDir, "", i, "_input", ".xlsx")

\* C4: after convert_file answered success with downloadUrl .../download/{id},
\* download_file(id) returns that job's XML, with and without encryption.
C4_DownloadAfterConvert ==
    (resp # <<>> /\ resp.file_id.post = "" /\ resp.file_id.id <= Len(jobs)
        /\ jobs[resp.file_id.id].status = "success") =>
        /\ resp.status = "200"
        /\ resp.body = XmlFile(jobs[resp.file_id.id].tree)

\* C5: once a convert_file request that wrote the upload to input_path has
\* finished, input_path no longer exists, whatever the outcome was.
C5_InputRemoved ==
    \A i \in 1..Len(jobs) :
        jobs[i].wroteInput => ~exists(fs, JobInputPath(i))

\* C5 witness: two requests that wrote their input have finished, the first
\* converted and the second failed with its input on disk, and neither
\* input file is left.
C5_Witness ==
    /\ Len(jobs) = 2
    /\ jobs[1].wroteInput /\ jobs[1].status = "success"
    /\ jobs[2].wroteInput /\ jobs[2].status = "HTTP 500"
    /\ ~exists(fs, JobInputPath(1)) /\ ~exists(fs, JobInputPath(2))

\* C15: download_file for a file_id with neither {file_id}.xml nor
\* {file_id}.xml.enc in the output directory answers 404 and creates or
\* deletes no file.
C15_MissingArtifactIs404 ==
    (resp # <<>> /\ ~resp.found) =>
        (resp.status = "HTTP 404" /\ ~resp.changed)

\* the artifact download_file(file_id) finds is the encrypted one
EncryptedArtifact(file_id) ==
    /\ exists(fs, PathOf(OutputDir, "", file_id.id, file_id.post, ".xml.enc"))
    /\ ~exists(fs, PathOf(OutputDir, "", file_id.id, file_id.post, ".xml"))

JobOutputFiles(i) ==
    {q \in FilesIn(fs, OutputDir) :
        q.pre = "" /\ q.id = i /\ q.post = "_output"}

\* C18: once a convert_file request that failed has finished, no output
\* file of that job ({id}_output.xml or {id}_output.xml.enc) is left.
C18_NoOutputAfterFailure ==
    \A i \in 1..Len(jobs) :
        jobs[i].status # "success" => JobOutputFiles(i) = {}

\* C20: convert_file answers an oversize upload with 413 before a byte of
\* it is written to the upload directory and before an output path exists.
C20_RejectBeforeWrite ==
    \A i \in 1..Len(jobs) :
        jobs[i].status = "HTTP 413" =>
            (~jobs[i].wroteInput /\ JobOutputFiles(i) = {})

(***************************************************************************)
(* SpecReq: one request to a route of routes/converter.py, answered        *)
(* through the exception handlers of app.py.  The output directory is      *)
(* empty or holds what an earlier encrypted conversion left.               *)
(***************************************************************************)
\* the statuses of the HTTPExceptions the routes raise
HttpErrors == {"HTTP 400", "HTTP 413", "HTTP 500"}

\* app.http_exception_handler: message is str(exc.detail), of which the
\* model keeps the text of the internal exception the route put into it
http_exception_handler(status, exc, show_details) ==
    [error_code |-> status, message |-> exc,
     details |-> IF show_details THEN exc ELSE "None"]

\* app.general_exception_handler, for an exception that is no HTTPException
general_exception_handler(exc, show_details) ==
    [error_code |-> "INTERNAL_ERROR",
     message |-> IF show_details THEN exc ELSE "",
     details |-> IF show_details THEN exc ELSE "None"]

\* the response a client gets for what a route returned or raised
Respond(r, body, show_details) ==
    IF r.status \in {"200", "success"}
    THEN [status |-> r.status, error |-> FALSE, body |-> body]
    ELSE IF r.status \in HttpErrors
    THEN [status |-> r.status, error |-> TRUE,
          body |-> http_exception_handler(r.status, r.exc, show_details)]
    ELSE [status |-> "HTTP 500", error |-> TRUE,
          body |-> general_exception_handler(r.status, show_details)]

\* the columns SN (int), UNIQUE_ID (str), NUBAN (float) and VALUE_DATE
\* (datetime), by their position in data_type_rules
MissingAt == {i \in 1..Len(data_type_rules) :
                 data_type_rules[i].name \in {<<"S","N">>,
                                              <<"U","N","I","Q","U","E","_","I","D">>,
                                              <<"N","U","B","A","N">>,
                                              <<"V","A","L","U","E","_","D","A","T","E">>}}
\* a workbook with the sixteen required columns and one row of values that
\* convert; the same with a text in SN, and with one value missing
CallReportWorkbook ==
    [kind |-> "xlsx",
     columns |-> [i \in 1..Len(data_type_rules) |-> data_type_rules[i].name],
     rows |-> <<[i \in 1..Len(data_type_rules) |->
                   IF data_type_rules[i].type = "str"
                   THEN StrCell(T_Jo) ELSE IntCell(30)]>>]
ValidateUploads ==
    {[content |-> c, size |-> n, ext |-> e] :
        c \in {CallReportWorkbook,
               [CallReportWorkbook EXCEPT !.rows[1][1] = StrCell(T_Jo)],
               GoodWorkbook, EmptyWorkbook, [kind |-> "corrupt"]}
                 \cup {[CallReportWorkbook EXCEPT !.rows[1][i] = NaN] :
                          i \in MissingAt},
        n \in UploadSizes, e \in {".xlsx", ".xls", ".csv"}}
ValidateFaults == {"none", "upload_dir", "validate_audit", "audit_validate_route"}

\* what an encrypted conversion under file id 1 left in the directories
AfterEncryptedJob ==
    convert_file(NoFiles, 1, [content |-> GoodWorkbook, size |-> 1],
                 JsonRequest(<<>>, TRUE, "Sheet1"), 1, "none").fs

ConvertRequest ==
    /\ cvPc = "ready"
    /\ \E upload \in RouteUploads, request \in RouteRequests,
          show_details \in BOOLEAN :
         \E iv \in RouteIVs(request), fault \in RouteFaults(request) :
           LET r == convert_file(fs, 2, upload, request, iv, fault)
           IN  /\ fs' = r.fs
               /\ cvCall' = [route |-> "convert", show_details |-> show_details,
                             upload |-> upload, fault |-> fault,
                             request |-> request.kind]
               /\ cvOut' = Respond(r, [kind |-> "ConversionResponse"],
                                   show_details)
    /\ cvPc' = "done"
    /\ UNCHANGED <<clock, jobs, resp, sanVars, cphVars>>

DownloadRequest ==
    /\ cvPc = "ready"
    /\ \E file_id \in FileRefs(1), show_details \in BOOLEAN :
         \E fault \in DownloadFaults(fs, file_id) :
           LET r == download_file(fs, file_id, fault)
           IN  /\ fs' = r.fs
               /\ cvCall' = [route |-> "download", show_details |-> show_details,
                             upload |-> file_id, fault |-> fault]
               /\ cvOut' = Respond(r, r.body, show_details)
    /\ cvPc' = "done"
    /\ UNCHANGED <<clock, jobs, resp, sanVars, cphVars>>

ValidateRequest ==
    /\ cvPc = "ready"
    /\ \E upload \in ValidateUploads, fault \in ValidateFaults,
          show_details \in BOOLEAN :
           LET r == validate_file(fs, 2, upload, fault)
           IN  /\ fs' = r.fs
               /\ cvCall' = [route |-> "validate", show_details |-> show_details,
                             upload |-> upload, fault |-> fault]
               /\ cvOut' = Respond(r, r.body, show_details)
    /\ cvPc' = "done"
    /\ UNCHANGED <<clock, jobs, resp, sanVars, cphVars>>

InitReq ==
    /\ cvPc = "ready"
    /\ cvCall = <<>>
    /\ cvOut = NoOutcome
    /\ fs \in {NoFiles, AfterEncryptedJob}
    /\ clock = 0 /\ jobs = <<>> /\ resp = <<>>
    /\ SanOff /\ CphOff

NextReq == ConvertRequest \/ DownloadRequest \/ ValidateRequest

SpecReq == InitReq /\ [][NextReq]_vars

\* C14: with SHOW_ERROR_DETAILS unset or false, the body of an error
\* response of convert_file, validate_file or download_file holds no text
\* of the internal exception that caused the failure.
C14_NoExceptionText ==
    (cvPc = "done" /\ ~cvCall.show_details /\ cvOut.error) =>
        cvOut.body.message = ""

\* the temporary files of validate_file left in the upload directory
ValidateTempFiles == {q \in FilesIn(fs, UploadDir) : q.pre = "temp_"}

\* C19: validate_file answers an oversize upload, and one whose extension is
\* not .xls/.xlsx, with a normal response carrying is_valid = false, not with
\* an HTTP error; and whatever the outcome, no temporary file of the request
\* is left in the upload directory.
C19_InvalidUploadAnswered ==
    (cvPc = "done" /\ cvCall.route = "validate") =>
        /\ (cvCall.upload.size > MaxUploadBytes
                \/ cvCall.upload.ext \notin ALLOWED_EXTENSIONS) =>
              (~cvOut.error /\ cvOut.body.is_valid = FALSE)
        /\ ValidateTempFiles = {}

\* C29: convert_file called with request_data that is not valid JSON
\* answers HTTP 400 and creates no file; and for every failure before the
\* job's paths are assigned, the finally block does not replace the
\* handler's own HTTP error by another failure.
C29_EarlyFailureAnswered ==
    (cvPc = "done" /\ cvCall.route = "convert") =>
        /\ cvCall.request = "invalid" =>
              /\ cvOut.status = "HTTP 400"
              /\ \A q \in DOMAIN fs : q.id # 2
        /\ (cvCall.request = "invalid"
                \/ cvCall.fault \in {"audit_upload", "upload_dir"}) =>
              cvOut.body.error_code \in HttpErrors

\* the required column `rule` is in the workbook and none of its values
\* is missing
PresentAndComplete(content, rule) ==
    \E c \in 1..Len(content.columns) :
        /\ content.columns[c] = rule.name
        /\ \A r \in 1..Len(content.rows) : content.rows[r][c].kind # "nan"

\* C30: validate_excel_file returns True only for a workbook in which all
\* sixteen required columns are present and free of missing values, for
\* every declared column type.
C30_ValidOnlyIfComplete ==
    (cvPc = "done" /\ cvCall.route = "validate" /\ ~cvOut.error
        /\ cvOut.body.is_valid) =>
        /\ cvCall.upload.content.kind = "xlsx"
        /\ \A i \in 1..Len(data_type_rules) :
              PresentAndComplete(cvCall.upload.content, data_type_rules[i])

(***************************************************************************)
(* SpecDl: two download_file requests for the same encrypted artifact are  *)
(* in progress at once.  The handler body has no await and runs in one     *)
(* step; the FileResponse it returns is sent afterwards, in steps between  *)
(* which the other request may run: it looks the file up, opens it, sends  *)
(* it and then runs its background call.  jobs holds the two requests.     *)
(***************************************************************************)
Downloaders == {1, 2}
SharedRef   == [id |-> 1, post |-> "_output"]
SharedTemp  == PathOf(OutputDir, "temp_", SharedRef.id, SharedRef.post, ".xml")
SharedArtifact == PathOf(OutputDir, "", SharedRef.id, SharedRef.post, ".xml.enc")

\* what encrypted conversions under file id 1 may have left
EncryptedJobsLeft ==
    {convert_file(NoFiles, 1, [content |-> GoodWorkbook, size |-> 1],
                  request, iv, "none").fs :
        request \in {JsonRequest(<<>>, TRUE, "Sheet1"),
                     JsonRequest(<<[k |-> T_Region, v |-> T_NorthWest]>>, TRUE,
                                 "Sheet1")},
        iv \in FileIVs}

NewDownload == [pc |-> "new", fault |-> "none", status |-> "", body |-> NoBody]

\* the handler of request p runs up to `return FileResponse(...)`
DlHandle(p) ==
    /\ jobs[p].pc = "new"
    /\ \E fault \in DownloadFaults(fs, SharedRef) :
           LET h == download_handler(fs, SharedRef, fault)
           IN  /\ fs' = h.fs
               /\ jobs' = [jobs EXCEPT ![p] =
                     IF h.status = "200"
                     THEN [pc |-> "respond", fault |-> fault, status |-> "",
                           body |-> NoBody]
                     ELSE [pc |-> "done", fault |-> fault, status |-> h.status,
                           body |-> NoBody]]
    /\ UNCHANGED <<clock, resp, sanVars, cphVars, cvVars>>

\* FileResponse looks the file up (os.stat) before it sends the headers: a
\* file that is not there ends the request with an error
DlStat(p) ==
    /\ jobs[p].pc = "respond"
    /\ jobs' = [jobs EXCEPT ![p] =
          IF exists(fs, SharedTemp)
          THEN [@ EXCEPT !.pc = "headers"]
          ELSE [@ EXCEPT !.pc = "done", !.status = "HTTP 500"]]
    /\ UNCHANGED <<fs, clock, resp, sanVars, cphVars, cvVars>>

\* FileResponse opens the file after the headers went out: without the
\* file the body never follows; with it, the open file is what is sent,
\* also if the path is unlinked meanwhile
DlOpen(p) ==
    /\ jobs[p].pc = "headers"
    /\ jobs' = [jobs EXCEPT ![p] =
          IF exists(fs, SharedTemp)
          THEN [@ EXCEPT !.pc = "open", !.body = fs[SharedTemp]]
          ELSE [@ EXCEPT !.pc = "done", !.status = "incomplete response"]]
    /\ UNCHANGED <<fs, clock, resp, sanVars, cphVars, cvVars>>

\* the body is sent and the background call temp_path.unlink runs (on a
\* path already unlinked it raises after the response is complete)
DlFinish(p) ==
    /\ jobs[p].pc = "open"
    /\ jobs' = [jobs EXCEPT ![p] = [@ EXCEPT !.pc = "done", !.status = "200"]]
    /\ fs' = IF exists(fs, SharedTemp) THEN unlink(fs, SharedTemp) ELSE fs
    /\ UNCHANGED <<clock, resp, sanVars, cphVars, cvVars>>

InitDl ==
    /\ fs \in EncryptedJobsLeft
    /\ jobs = [p \in Downloaders |-> NewDownload]
    /\ clock = 0 /\ resp = <<>>
    /\ SanOff /\ CphOff /\ CvOff

NextDl == \E p \in Downloaders : DlHandle(p) \/ DlStat(p) \/ DlOpen(p) \/ DlFinish(p)

SpecDl == InitDl /\ [][NextDl]_vars

\* C28: two concurrent download_file requests for the same encrypted
\* artifact do not interfere: each request whose own collaborator calls
\* succeed returns the complete decrypted XML of the artifact.
C28_ConcurrentDownloadsIndependent ==
    \A p \in Downloaders :
        (jobs[p].pc = "done" /\ jobs[p].fault = "none") =>
            /\ jobs[p].status = "200"
            /\ jobs[p].body = fs[SharedArtifact].plain

(***************************************************************************)
(* SpecMain: the application of main.py.  convert_excel_to_xml requests    *)
(* are served one after the other while the wall clock advances; each      *)
(* names its output after the clock second in which it is served.          *)
(* download_file requests come in between.                                 *)
(***************************************************************************)
MaxClock == 1

\* the file names main.download_file may be asked for: the ones
\* convert_excel_to_xml can have announced, and one second further
MainFileNames ==
    {PathOf(OutputDir, "converted_", t, "", ".xml") : t \in 0..(MaxClock + 1)}

\* main.download_file: 404 when OUTPUT_DIR/filename does not exist
main_download_file(f, filename) ==
    IF ~exists(f, filename)
    THEN [fs |-> f, status |-> "HTTP 404: File not found", body |-> NoBody]
    ELSE [fs |-> f, status |-> "200", body |-> f[filename]]

MainConvertFile ==
    /\ Len(jobs) < MaxJobs
    /\ \E upload \in RouteUploads, header_list \in HeaderDicts :
           LET o == convert_excel_to_xml(fs, upload.content, header_list, clock)
           IN  /\ fs' = o.fs
               /\ jobs' = Append(jobs,
                      [status |-> IF o.raised = "" THEN "success" ELSE o.raised,
                       output |-> PathOf(OutputDir, "converted_", clock, "", ".xml"),
                       tree   |-> o.tree])
    /\ UNCHANGED <<clock, resp, sanVars, cphVars, cvVars>>

\* a second passes
Tick ==
    /\ clock < MaxClock
    /\ clock' = clock + 1
    /\ UNCHANGED <<fs, jobs, resp, sanVars, cphVars, cvVars>>

MainDownloadFile ==
    /\ \E filename \in MainFileNames :
           LET r == main_download_file(fs, filename)
           IN  /\ fs' = r.fs
               /\ resp' = [filename |-> filename, status |-> r.status,
                           body |-> r.body, found |-> exists(fs, filename),
                           files |-> DOMAIN fs]
    /\ UNCHANGED <<clock, jobs, sanVars, cphVars, cvVars>>

NextMain == MainConvertFile \/ Tick \/ MainDownloadFile

SpecMain == Init /\ [][NextMain]_vars

\* C13: any two conversion requests that succeeded wrote their artifacts to
\* different paths, also when both were served within one clock second, so
\* that each artifact is still the one its request wrote.
C13_DistinctOutputPaths ==
    \A i, j \in 1..Len(jobs) :
        (i < j /\ jobs[i].status = "success" /\ jobs[j].status = "success") =>
            /\ jobs[i].output # jobs[j].output
            /\ fs[jobs[i].output] = XmlFile(jobs[i].tree)

(***************************************************************************)
(* SpecRate: requests of two clients arrive at the rate limiting of app.py *)
(* (the rate_limit middleware) and of main.py (check_rate_limit, called    *)
(* by session_middleware).  jobs is the log of the requests of the current *)
(* period, resp the state of the limiter that decorates check_rate_limit,  *)
(* clock the number of periods elapsed.                                    *)
(***************************************************************************)
\* the ceiling: config.RATE_LIMIT_CALLS and limits(calls=...), both 100 in
\* the repository, scaled down
CallCeiling == 2
MaxRequests == 4
MaxPeriods  == 1
Clients == {"client1", "client2"}

\* request.state of a request that arrives: Starlette builds it anew for
\* every request, so it has no attribute yet
NewRequestState == [has_count |-> FALSE, rate_limit_count |-> 0]

\* app.rate_limit: the status of the response, "served" standing for what
\* call_next returned
rate_limit(state, calls) ==
    IF calls > 0
    THEN LET count == IF state.has_count THEN state.rate_limit_count ELSE 0
         IN  IF count >= calls THEN "429" ELSE "served"
    ELSE "served"

\* the wrapper that @limits(calls, period) puts around check_rate_limit:
\* one counter for the process, whoever the caller is; the result is the
\* counter after the call and whether RateLimitException was raised
check_rate_limit(num_calls, calls) ==
    [num_calls |-> num_calls + 1, raised |-> num_calls + 1 > calls]

\* main.session_middleware for a request without Authorization header
session_middleware(num_calls, calls) ==
    LET r == check_rate_limit(num_calls, calls)
    IN  [num_calls |-> r.num_calls,
         status |-> IF r.raised THEN "429" ELSE "served"]

AppRequest ==
    /\ Len(jobs) < MaxRequests
    /\ \E client \in Clients :
           jobs' = Append(jobs, [app |-> "app", client |-> client,
                                 status |-> rate_limit(NewRequestState, CallCeiling)])
    /\ UNCHANGED <<resp, clock, fs, sanVars, cphVars, cvVars>>

MainRequest ==
    /\ Len(jobs) < MaxRequests
    /\ \E client \in Clients :
           LET r == session_middleware(resp.num_calls, CallCeiling)
           IN  /\ jobs' = Append(jobs, [app |-> "main", client |-> client,
                                        status |-> r.status])
               /\ resp' = [num_calls |-> r.num_calls]
    /\ UNCHANGED <<clock, fs, sanVars, cphVars, cvVars>>

\* the period ends: the limiter of main.py starts counting again
PeriodElapses ==
    /\ clock < MaxPeriods
    /\ clock' = clock + 1
    /\ jobs' = <<>>
    /\ resp' = [num_calls |-> 0]
    /\ UNCHANGED <<fs, sanVars, cphVars, cvVars>>

InitRate ==
    /\ jobs = <<>>
    /\ resp = [num_calls |-> 0]
    /\ clock = 0
    /\ fs = <<>>
    /\ SanOff /\ CphOff /\ CvOff

NextRate == AppRequest \/ MainRequest \/ PeriodElapses

SpecRate == InitRate /\ [][NextRate]_vars

\* the number of requests before the i-th of the log that the same client
\* sent to the same application in the period
RequestsBefore(i) ==
    Cardinality({j \in 1..(i - 1) :
                    jobs[j].app = jobs[i].app /\ jobs[j].client = jobs[i].client})

\* C26: once a client has made CallCeiling requests within the period, its
\* next request is refused with 429, while a client that has not reached
\* the ceiling is served whatever other clients have sent.
C26_CeilingPerClient ==
    \A i \in 1..Len(jobs) :
        /\ RequestsBefore(i) >= CallCeiling => jobs[i].status = "429"
        /\ RequestsBefore(i) < CallCeiling => jobs[i].status = "served"

(***************************************************************************)
(* SpecSan: every text over TagAlphabet of length at most MaxTagLen is     *)
(* sanitized, then each result is sanitized again.                         *)
(***************************************************************************)
MaxTagLen == 4
\* a letter of each case, a digit, the three punctuation name characters,
\* two kinds of whitespace and a character no sanitizer allows
TagAlphabet == {"a", "Z", "1", "_", ".", "-", " ", "\t", "$"}

RECURSIVE TextsUpTo(_, _)
TextsUpTo(n, alphabet) ==
    IF n = 0 THEN {<<>>}
    ELSE LET shorter == TextsUpTo(n - 1, alphabet)
         IN  shorter \cup {Append(s, c) : s \in {t \in shorter : Len(t) = n - 1},
                                          c \in alphabet}

\* _sanitize_xml_tag applied to its own result: an exception stays one
sanitize_again(r) == IF Ok(r) THEN _sanitize_xml_tag(r.val) ELSE r

SanitizeOnce ==
    /\ sanPc = "in"
    /\ sanOut' = [main   |-> Returned(sanitize_tag(sanIn)),
                  routes |-> Returned(sanitize_xml_tag(sanIn)),
                  utils  |-> _sanitize_xml_tag(sanIn)]
    /\ sanPc' = "once"
    /\ UNCHANGED <<sanIn, sanOut2, cphVars, cvVars, fsVars>>

SanitizeTwice ==
    /\ sanPc = "once"
    /\ sanOut2' = [main   |-> Returned(sanitize_tag(sanOut.main.val)),
                   routes |-> Returned(sanitize_xml_tag(sanOut.routes.val)),
                   utils  |-> sanitize_again(sanOut.utils)]
    /\ sanPc' = "twice"
    /\ UNCHANGED <<sanIn, sanOut, cphVars, cvVars, fsVars>>

InitSan ==
    /\ sanPc = "in"
    /\ sanIn \in TextsUpTo(MaxTagLen, TagAlphabet)
    /\ sanOut = NoSanOut
    /\ sanOut2 = NoSanOut
    /\ CphOff /\ CvOff /\ FsOff

NextSan == SanitizeOnce \/ SanitizeTwice

SpecSan == InitSan /\ [][NextSan]_vars

\* C7: for every input text, main.sanitize_tag and routes sanitize_xml_tag
\* return (they never raise) a text matching ^[A-Za-z_][A-Za-z0-9_.-]*$.
C7_SanitizedMatchesRegex ==
    sanPc \in {"once", "twice"} =>
        /\ Ok(sanOut.main) /\ MatchesTagRegex(sanOut.main.val)
        /\ Ok(sanOut.routes) /\ MatchesTagRegex(sanOut.routes.val)

\* C7 witness: a text of whitespace, a digit and a disallowed character was
\* sanitized by both functions.
C7_Witness ==
    /\ sanPc = "once"
    /\ sanIn = <<" ", "1", "$">>
    /\ sanOut.main.val = <<"_", "1">>
    /\ sanOut.routes.val = <<"_", "1">>

\* C8: sanitization is idempotent: main.sanitize_tag of its own result is
\* that result, and _sanitize_xml_tag applied to a result it returned
\* returns it unchanged, without raising.
C8_SanitizeIdempotent ==
    sanPc = "twice" =>
        /\ sanOut2.main = sanOut.main
        /\ Ok(sanOut.utils) => sanOut2.utils = sanOut.utils

\* C8 witness: the digit-first tag 1__a went twice through sanitize_tag,
\* giving _1__a both times, and twice through _sanitize_xml_tag, giving 1_a
\* both times.
C8_Witness ==
    /\ sanPc = "twice"
    /\ sanIn = <<"1", "_", "_", "a">>
    /\ sanOut2.main = Returned(<<"_", "1", "_", "_", "a">>)
    /\ sanOut2.utils = Returned(<<"1", "_", "a">>)

\* C21: main.sanitize_tag of a name that is empty once whitespace runs are
\* replaced and disallowed characters removed (the empty name, or a name of
\* disallowed characters only) returns the fallback EMPTY_TAG.
C21_EmptyGivesFallback ==
    (sanPc \in {"once", "twice"} /\ re_sub_invalid(re_sub_ws(sanIn)) = <<>>) =>
        sanOut.main = Returned(<<"E","M","P","T","Y","_","T","A","G">>)

\* C22: _sanitize_xml_tag of a tag of letters, digits and underscores whose
\* first character is a digit returns the tag prefixed with '_'; and
\* whatever it returns starts with a letter or an underscore.
C22_LeadingDigitPrefixed ==
    sanPc \in {"once", "twice"} =>
        /\ (sanIn # <<>> /\ sanIn[1] \in Digits
                /\ \A i \in 1..Len(sanIn) : sanIn[i] \in UtilsAllowed) =>
              sanOut.utils = Returned(<<"_">> \o sanIn)
        /\ Ok(sanOut.utils) => sanOut.utils.val[1] \in Letters \cup {"_"}

====
